---- MODULE Spec2Model ----
(***************************************************************************)
(* Model of server_monitor.py: the output parsers (parse_gpu_info,         *)
(* parse_storage_info), the per-target fetch (get_server_info), the        *)
(* renderer's only failing step (create_storage_table) and the poll cycle  *)
(* of main.                                                                *)
(*                                                                         *)
(* A text is the sequence of its lines (text.split('\n')); a line is the   *)
(* sequence of its whitespace-separated fields (line.split()); a field is  *)
(* the sequence of its characters.  A blank line is the empty sequence.    *)
(***************************************************************************)
EXTENDS Integers, Sequences, FiniteSets, TLC

\* ------------------------------------------------------------------ bounds
MaxTargets == 2
MaxLines == 4

\* ------------------------------------------------------- program constants
GpuHeaderLines == 2
MinGpuFields == 13
StorageHeaderLines == 1
MinStorageFields == 6

VARIABLES
    pc,            \* position of main / get_server_info / display
    servers,       \* len(servers) after discovery; the targets are 1..servers
    idx,           \* index of the target the for loop is at
    session,       \* session[t]: "none", "open" or "closed"
    gpu_info,      \* local of get_server_info
    storage_info,  \* local of get_server_info
    info,          \* value returned by the current get_server_info call
    results,       \* the values returned so far, in call order
    shown,         \* targets whose display_server_info call completed
    log,           \* steps taken so far: [t |-> target, ev |-> step]
    conn,          \* conn[t]: outcome of ssh.connect for target t
    nv,            \* nv[t]: outcome of the nvidia-smi step for target t
    df,            \* df[t]: outcome of the df -h step for target t
    nvText,        \* nvText[t]: stdout of nvidia-smi on target t
    dfText,        \* dfText[t]: stdout of df -h on target t
    p_pc,          \* parser harness: "input", "gpu" or "storage"
    p_text,        \* parser harness: the input text
    p_out          \* parser harness: the value returned by the parser

vars == <<pc, servers, idx, session, gpu_info, storage_info, info, results,
          shown, log, conn, nv, df, nvText, dfText, p_pc, p_text, p_out>>

mainVars == <<pc, servers, idx, session, gpu_info, storage_info, info,
              results, shown, log, conn, nv, df, nvText, dfText>>

parseVars == <<p_pc, p_text, p_out>>

\* ------------------------------------------------------------ text helpers
\* not line.strip()
IsBlank(line) == Len(line) = 0

\* parts[k] with Python's 0-based index
At(parts, k) == parts[k + 1]

\* lines[k:]
Slice(lines, k) == SubSeq(lines, k + 1, Len(lines))

RECURSIVE LStripLines(_)
LStripLines(t) ==
    IF t # <<>> /\ IsBlank(Head(t)) THEN LStripLines(Tail(t)) ELSE t

RECURSIVE RStripLines(_)
RStripLines(t) ==
    IF t # <<>> /\ IsBlank(t[Len(t)])
    THEN RStripLines(SubSeq(t, 1, Len(t) - 1))
    ELSE t

\* text.strip().split('\n'): leading and trailing whitespace of the whole
\* text goes, so leading and trailing blank lines go; '' splits into ['']
StripSplit(text) ==
    LET s == RStripLines(LStripLines(text))
    IN  IF s = <<>> THEN << <<>> >> ELSE s

\* ----------------------------------------------------------- parse_gpu_info
GpuRecord(parts) ==
    [id           |-> At(parts, 1),
     name         |-> At(parts, 2),
     memory_used  |-> At(parts, 8),
     memory_total |-> At(parts, 10),
     utilization  |-> At(parts, 12)]

RECURSIVE GpuLoop(_, _)
GpuLoop(lines, gpus) ==
    IF lines = <<>> THEN [exc |-> "none", val |-> gpus]
    ELSE LET line  == Head(lines)
             parts == line
         IN  IF IsBlank(line) THEN GpuLoop(Tail(lines), gpus)
             ELSE IF Len(parts) >= MinGpuFields
                  THEN IF Len(parts) <= 12
                       THEN [exc |-> "IndexError", val |-> <<>>]
                       ELSE GpuLoop(Tail(lines), Append(gpus, GpuRecord(parts)))
                  ELSE GpuLoop(Tail(lines), gpus)

parse_gpu_info_nostrip(text) == GpuLoop(Slice(text, GpuHeaderLines), <<>>)

parse_gpu_info(text) ==
    GpuLoop(Slice(StripSplit(text), GpuHeaderLines), <<>>)

\* ------------------------------------------------------- parse_storage_info
StorageRecord(parts) ==
    [filesystem  |-> At(parts, 0),
     size        |-> At(parts, 1),
     used        |-> At(parts, 2),
     available   |-> At(parts, 3),
     use_percent |-> At(parts, 4),
     mounted_on  |-> At(parts, 5)]

RECURSIVE StorageLoop(_, _)
StorageLoop(lines, storage) ==
    IF lines = <<>> THEN [exc |-> "none", val |-> storage]
    ELSE LET line  == Head(lines)
             parts == line
         IN  IF IsBlank(line) THEN StorageLoop(Tail(lines), storage)
             ELSE IF Len(parts) >= MinStorageFields
                  THEN IF Len(parts) <= 5
                       THEN [exc |-> "IndexError", val |-> <<>>]
                       ELSE StorageLoop(Tail(lines),
                                        Append(storage, StorageRecord(parts)))
                  ELSE StorageLoop(Tail(lines), storage)

parse_storage_info_nostrip(text) ==
    StorageLoop(Slice(text, StorageHeaderLines), <<>>)

parse_storage_info(text) ==
    StorageLoop(Slice(StripSplit(text), StorageHeaderLines), <<>>)

\* ----------------------------------------------------- create_storage_table
Digits == {"0", "1", "2", "3", "4", "5", "6", "7", "8", "9"}

\* s.rstrip(c)
RECURSIVE rstrip(_, _)
rstrip(s, c) ==
    IF s # <<>> /\ s[Len(s)] = c
    THEN rstrip(SubSeq(s, 1, Len(s) - 1), c)
    ELSE s

\* int(s) returns (TRUE) or raises ValueError (FALSE): an optional sign, then
\* decimal digits, single underscores allowed between digits
IntParses(s) ==
    LET body == IF s # <<>> /\ s[1] \in {"+", "-"} THEN Tail(s) ELSE s
    IN  /\ body # <<>>
        /\ \A k \in 1..Len(body) :
              \/ body[k] \in Digits
              \/ /\ body[k] = "_"
                 /\ k > 1
                 /\ k < Len(body)
                 /\ body[k - 1] \in Digits
                 /\ body[k + 1] \in Digits

\* the for loop of create_storage_table raises at the first row whose
\* use_percent does not convert
create_storage_table(storage) ==
    IF \A k \in 1..Len(storage) :
          IntParses(rstrip(storage[k].use_percent, "%"))
    THEN "none"
    ELSE "ValueError"

\* display_server_info: "none" when it returns, else the exception it lets
\* escape
display_server_info(i) ==
    IF "error" \in DOMAIN i THEN "none"
    ELSE create_storage_table(i.storage_info)

\* ------------------------------------------------------------------ inputs
Hex == <<"0", "1", "2", "3", "4", "5", "6", "7", "8", "9",
         "a", "b", "c", "d", "e", "f">>

\* a line of n fields, field k (0-based) being the two characters r, Hex[k]
Row(r, n) == [k \in 1..n |-> <<r, Hex[k]>>]

\* a df -h data line whose Use% column is pct
DfRow(r, pct) == [Row(r, 6) EXCEPT ![5] = pct]

Pct91 == <<"9", "1", "%">>
Pct5 == <<"5", "%">>
PctDash == <<"-">>

\* what get_server_info substitutes when the nvidia-smi step raises
Sentinel ==
    << << <<"N", "o">>, <<"G", "P", "U">>,
          <<"i", "n", "f", "o", "r", "m", "a", "t", "i", "o", "n">>,
          <<"a", "v", "a", "i", "l", "a", "b", "l", "e">> >> >>

\* gpu_info = "" before the inner try
EmptyText == << <<>> >>

\* stdout of nvidia-smi when the step does not raise
NvTexts ==
    { EmptyText,
      <<Row("h", 3), Row("h", 5)>>,
      <<Row("h", 3), Row("h", 5), Row("x", 13), <<>>, Row("y", 4)>> }

\* stdout of df -h when the step does not raise
DfTexts ==
    { EmptyText,
      <<Row("h", 7), DfRow("x", Pct91), DfRow("y", Pct5)>>,
      <<Row("h", 7), DfRow("x", PctDash)>>,
      <<Row("h", 7), Row("x", 4)>>,
      <<<<>>, Row("h", 7), DfRow("x", Pct91)>> }

\* the lines the parser harness builds its texts from
Lines ==
    { <<>>, Row("a", 5), Row("b", 6), Row("c", 12), Row("d", 13), Row("e", 14) }

RECURSIVE TextsOfLen(_)
TextsOfLen(n) ==
    IF n = 0 THEN { <<>> }
    ELSE { Append(t, l) : t \in TextsOfLen(n - 1), l \in Lines }

\* text.split('\n') always has at least one line
Texts == UNION { TextsOfLen(n) : n \in 1..MaxLines }

Targets == 1..MaxTargets

\* -------------------------------------------------------------------- Init
NoOutcome == [t \in Targets |-> "none"]
NoText == [t \in Targets |-> <<>>]

MainInit ==
    /\ pc = "main_read"
    /\ servers = 0
    /\ idx = 0
    /\ session = NoOutcome
    /\ gpu_info = <<>>
    /\ storage_info = <<>>
    /\ info = [error |-> "unset"]
    /\ results = <<>>
    /\ shown = <<>>
    /\ log = <<>>
    /\ conn = NoOutcome
    /\ nv = NoOutcome
    /\ df = NoOutcome
    /\ nvText = NoText
    /\ dfText = NoText

ParseIdle ==
    /\ p_pc = "off"
    /\ p_text = <<>>
    /\ p_out = [exc |-> "none", val |-> <<>>]

Init == MainInit /\ ParseIdle

Ev(t, e) == [t |-> t, ev |-> e]

\* -------------------------------------------------------------------- main
\* servers = read_zshrc_aliases(); if not servers: return; getpass
\* n = 0 covers both the missing file (returns []) and a file with no match
ReadAliases ==
    /\ pc = "main_read"
    /\ \E n \in 0..MaxTargets :
          /\ servers' = n
          /\ pc' = IF n = 0 THEN "no_servers" ELSE "main_loop"
    /\ UNCHANGED <<idx, session, gpu_info, storage_info, info, results, shown,
                   log, conn, nv, df, nvText, dfText>>

\* for server in servers: info = get_server_info(server, password) ...; break
LoopNext ==
    /\ pc = "main_loop"
    /\ IF idx < servers
       THEN /\ idx' = idx + 1
            /\ pc' = "gs_connect"
            /\ gpu_info' = <<>>
            /\ storage_info' = <<>>
       ELSE /\ pc' = "done"
            /\ UNCHANGED <<idx, gpu_info, storage_info>>
    /\ UNCHANGED <<servers, session, info, results, shown, log, conn, nv, df,
                   nvText, dfText>>

\* --------------------------------------------------------- get_server_info
\* statement order inside the outer try
NextPcSwapped(step) ==
    CASE step = "gs_connect" -> "gs_df"
      [] step = "gs_df"      -> "gs_nvidia"
      [] step = "gs_nvidia"  -> "gs_close"
      [] step = "gs_close"   -> "gs_return"

NextPc(step) ==
    CASE step = "gs_connect" -> "gs_nvidia"
      [] step = "gs_nvidia"  -> "gs_df"
      [] step = "gs_df"      -> "gs_close"
      [] step = "gs_close"   -> "gs_return"

\* except Exception as e: return {'error': str(e)}
Except(msg) ==
    /\ info' = [error |-> msg]
    /\ results' = Append(results, [error |-> msg])
    /\ pc' = "display"

\* ssh.connect(...) returns or raises
ConnectNoStop ==
    /\ pc = "gs_connect"
    /\ \E ok \in BOOLEAN :
          /\ conn' = [conn EXCEPT ![idx] = IF ok THEN "ok" ELSE "fail"]
          /\ session' = [session EXCEPT ![idx] = IF ok THEN "open" ELSE @]
    /\ log' = Append(log, Ev(idx, "connect"))
    /\ pc' = NextPc("gs_connect")
    /\ UNCHANGED <<servers, idx, gpu_info, storage_info, info, results, shown,
                   nv, df, nvText, dfText>>

Connect ==
    /\ pc = "gs_connect"
    /\ log' = Append(log, Ev(idx, "connect"))
    /\ \/ /\ conn' = [conn EXCEPT ![idx] = "ok"]
          /\ session' = [session EXCEPT ![idx] = "open"]
          /\ pc' = NextPc("gs_connect")
          /\ UNCHANGED <<info, results>>
       \/ /\ conn' = [conn EXCEPT ![idx] = "fail"]
          /\ Except("connect failed")
          /\ UNCHANGED session
    /\ UNCHANGED <<servers, idx, gpu_info, storage_info, shown, nv, df,
                   nvText, dfText>>

\* inner try: exec_command('nvidia-smi'); stdout.read().decode()
\* bare except: gpu_info = "No GPU information available"
ExecNvidiaPropagates ==
    /\ pc = "gs_nvidia"
    /\ log' = Append(log, Ev(idx, "nvidia"))
    /\ \/ \E out \in NvTexts :
             /\ nv' = [nv EXCEPT ![idx] = "ok"]
             /\ nvText' = [nvText EXCEPT ![idx] = out]
             /\ gpu_info' = out
             /\ pc' = NextPc("gs_nvidia")
             /\ UNCHANGED <<info, results>>
       \/ /\ nv' = [nv EXCEPT ![idx] = "raise"]
          /\ Except("nvidia-smi failed")
          /\ UNCHANGED <<nvText, gpu_info>>
    /\ UNCHANGED <<servers, idx, session, storage_info, shown, conn, df,
                   dfText>>

ExecNvidia ==
    /\ pc = "gs_nvidia"
    /\ log' = Append(log, Ev(idx, "nvidia"))
    /\ \/ \E out \in NvTexts :
             /\ nv' = [nv EXCEPT ![idx] = "ok"]
             /\ nvText' = [nvText EXCEPT ![idx] = out]
             /\ gpu_info' = out
       \/ /\ nv' = [nv EXCEPT ![idx] = "raise"]
          /\ gpu_info' = Sentinel
          /\ UNCHANGED nvText
    /\ pc' = NextPc("gs_nvidia")
    /\ UNCHANGED <<servers, idx, session, storage_info, info, results, shown,
                   conn, df, dfText>>

\* exec_command('df -h'); stdout.read().decode(); a raise goes to the outer
\* except, past ssh.close()
ExecDfSwallows ==
    /\ pc = "gs_df"
    /\ log' = Append(log, Ev(idx, "df"))
    /\ \/ \E out \in DfTexts :
             /\ df' = [df EXCEPT ![idx] = "ok"]
             /\ dfText' = [dfText EXCEPT ![idx] = out]
             /\ storage_info' = out
       \/ /\ df' = [df EXCEPT ![idx] = "raise"]
          /\ storage_info' = EmptyText
          /\ UNCHANGED dfText
    /\ pc' = NextPc("gs_df")
    /\ UNCHANGED <<servers, idx, session, gpu_info, info, results, shown,
                   conn, nv, nvText>>

ExecDf ==
    /\ pc = "gs_df"
    /\ log' = Append(log, Ev(idx, "df"))
    /\ \/ \E out \in DfTexts :
             /\ df' = [df EXCEPT ![idx] = "ok"]
             /\ dfText' = [dfText EXCEPT ![idx] = out]
             /\ storage_info' = out
             /\ pc' = NextPc("gs_df")
             /\ UNCHANGED <<info, results>>
       \/ /\ df' = [df EXCEPT ![idx] = "raise"]
          /\ Except("df failed")
          /\ UNCHANGED <<dfText, storage_info>>
    /\ UNCHANGED <<servers, idx, session, gpu_info, shown, conn, nv, nvText>>

\* ssh.close()
Close ==
    /\ pc = "gs_close"
    /\ session' = [session EXCEPT ![idx] = "closed"]
    /\ log' = Append(log, Ev(idx, "close"))
    /\ pc' = NextPc("gs_close")
    /\ UNCHANGED <<servers, idx, gpu_info, storage_info, info, results, shown,
                   conn, nv, df, nvText, dfText>>

\* return {'gpu_info': parse_gpu_info(...), 'storage_info': parse_...}
\* a raise inside a parser would go to the outer except
Return ==
    /\ pc = "gs_return"
    /\ log' = Append(log, Ev(idx, "parse"))
    /\ LET g == parse_gpu_info(gpu_info)
           s == parse_storage_info(storage_info)
           r == IF g.exc # "none" THEN [error |-> g.exc]
                ELSE IF s.exc # "none" THEN [error |-> s.exc]
                ELSE [gpu_info |-> g.val, storage_info |-> s.val]
       IN  /\ info' = r
           /\ results' = Append(results, r)
    /\ pc' = "display"
    /\ UNCHANGED <<servers, idx, session, gpu_info, storage_info, shown,
                   conn, nv, df, nvText, dfText>>

\* display_server_info(server, info); nothing in main catches what it raises
Display ==
    /\ pc = "display"
    /\ IF display_server_info(info) = "none"
       THEN /\ shown' = Append(shown, idx)
            /\ pc' = "main_loop"
       ELSE /\ pc' = "aborted"
            /\ UNCHANGED shown
    /\ UNCHANGED <<servers, idx, session, gpu_info, storage_info, info,
                   results, log, conn, nv, df, nvText, dfText>>

Next ==
    \/ ReadAliases /\ UNCHANGED parseVars
    \/ LoopNext /\ UNCHANGED parseVars
    \/ Connect /\ UNCHANGED parseVars
    \/ ExecNvidia /\ UNCHANGED parseVars
    \/ ExecDf /\ UNCHANGED parseVars
    \/ Close /\ UNCHANGED parseVars
    \/ Return /\ UNCHANGED parseVars
    \/ Display /\ UNCHANGED parseVars

Spec == Init /\ [][Next]_vars

\* ------------------------------------------------------- the parser harness
MainIdle ==
    /\ pc = "off"
    /\ servers = 0
    /\ idx = 0
    /\ session = NoOutcome
    /\ gpu_info = <<>>
    /\ storage_info = <<>>
    /\ info = [error |-> "unset"]
    /\ results = <<>>
    /\ shown = <<>>
    /\ log = <<>>
    /\ conn = NoOutcome
    /\ nv = NoOutcome
    /\ df = NoOutcome
    /\ nvText = NoText
    /\ dfText = NoText

ParseInit ==
    /\ MainIdle
    /\ p_pc = "input"
    /\ p_text \in Texts
    /\ p_out = [exc |-> "none", val |-> <<>>]

ApplyGpu ==
    /\ p_pc = "input"
    /\ p_out' = parse_gpu_info(p_text)
    /\ p_pc' = "gpu"
    /\ UNCHANGED <<p_text, mainVars>>

ApplyStorage ==
    /\ p_pc = "input"
    /\ p_out' = parse_storage_info(p_text)
    /\ p_pc' = "storage"
    /\ UNCHANGED <<p_text, mainVars>>

ParseNext == ApplyGpu \/ ApplyStorage

ParseSpec == ParseInit /\ [][ParseNext]_vars

\* ============================================================== properties
Done(t) == t <= Len(results)
IsFailure(r) == DOMAIN r = {"error"}
IsSuccess(r) == DOMAIN r = {"gpu_info", "storage_info"}
Issued(t, e) == \E k \in 1..Len(log) : log[k] = Ev(t, e)
Before(t, e, k) == \E j \in 1..(k - 1) : log[j] = Ev(t, e)

MinOf(S) == CHOOSE x \in S : \A y \in S : x <= y
MaxOf(S) == CHOOSE x \in S : \A y \in S : x >= y

\* the text without its leading and trailing blank lines
Trim(text) ==
    LET nb == {k \in 1..Len(text) : text[k] # <<>>}
    IN  IF nb = {} THEN <<>> ELSE SubSeq(text, MinOf(nb), MaxOf(nb))

\* the lines after the first h lines that have at least m fields
RowsAfter(T, h, m) ==
    SelectSeq(SubSeq(T, h + 1, Len(T)), LAMBDA l : Len(l) >= m)

GpuRecordsOf(T) ==
    LET rows == RowsAfter(T, 2, 13)
    IN  [k \in 1..Len(rows) |->
            [id |-> rows[k][2], name |-> rows[k][3],
             memory_used |-> rows[k][9], memory_total |-> rows[k][11],
             utilization |-> rows[k][13]]]

StorageRecordsOf(T) ==
    LET rows == RowsAfter(T, 1, 6)
    IN  [k \in 1..Len(rows) |->
            [filesystem |-> rows[k][1], size |-> rows[k][2],
             used |-> rows[k][3], available |-> rows[k][4],
             use_percent |-> rows[k][5], mounted_on |-> rows[k][6]]]

\* df -h output with a header line followed by at least one well-formed row
DfStyle(text) ==
    /\ Len(text) >= 2
    /\ text[1] # <<>>
    /\ \E k \in 2..Len(text) : Len(text[k]) >= 6

\* C1: when the poll cycle is over, exactly len(servers) results exist, one
\* per target in target-list order, whatever failed on the way.
C1_ExactlyNResults ==
    pc \in {"done", "aborted"} =>
        /\ Len(results) = servers
        /\ SelectSeq(log, LAMBDA e : e.ev = "connect")
             = [t \in 1..servers |-> Ev(t, "connect")]

\* C2: once get_server_info has returned for a target whose connect step
\* succeeded, that target's session is closed.
C2_ClosedOnEveryExit ==
    \A t \in Targets :
        (Done(t) /\ conn[t] = "ok") => session[t] = "closed"

C4_OptionalFailureIsSuccess ==
    /\ \A t \in Targets :
          (Done(t) /\ conn[t] = "ok" /\ nv[t] = "raise" /\ df[t] = "ok"
                   /\ DfStyle(dfText[t])) =>
              /\ IsSuccess(results[t])
              /\ results[t].gpu_info = <<>>
              /\ results[t].storage_info # <<>>
              /\ results[t].storage_info = StorageRecordsOf(dfText[t])
    /\ (pc \in {"gs_df", "gs_close", "gs_return"} /\ nv[idx] = "raise") =>
          gpu_info = Sentinel
    /\ \A t \in Targets :
          (Done(t) /\ nv[t] = "raise" /\ IsFailure(results[t])) =>
              (df[t] = "raise" /\ results[t] = [error |-> "df failed"])

C4_Witness ==
    \E t \in Targets :
        /\ Done(t)
        /\ nv[t] = "raise"
        /\ df[t] = "ok"
        /\ DfStyle(dfText[t])
        /\ IsSuccess(results[t])
        /\ Len(results[t].storage_info) = 2

\* the result of target t as a function of what happened on target t alone
OwnResult(t) ==
    IF conn[t] = "fail" THEN [error |-> "connect failed"]
    ELSE IF df[t] = "raise" THEN [error |-> "df failed"]
    ELSE [gpu_info |-> IF nv[t] = "raise" THEN <<>>
                       ELSE GpuRecordsOf(Trim(nvText[t])),
          storage_info |-> StorageRecordsOf(Trim(dfText[t]))]

\* C5: a target whose connect step failed gets a Failure, no command is
\* issued to it, the cycle goes on, and every target's result depends on
\* that target's own outcomes only.
C5_ConnectFailureIsolated ==
    /\ \A t \in Targets :
          (Done(t) /\ conn[t] = "fail") =>
              /\ IsFailure(results[t])
              /\ ~Issued(t, "nvidia")
              /\ ~Issued(t, "df")
    /\ \A t \in Targets : Done(t) => results[t] = OwnResult(t)
    /\ pc = "aborted" => conn[idx] = "ok"
    /\ pc = "done" => Len(results) = servers

C5_Witness ==
    /\ pc = "done"
    /\ servers = 2
    /\ conn[1] = "fail"
    /\ conn[2] = "ok"
    /\ IsSuccess(results[2])

\* C6 as stated: nvidia-smi is issued only after df -h has completed
\* successfully on the same target.
C6_MandatoryBeforeOptional ==
    \A k \in 1..Len(log) :
        log[k].ev = "nvidia" =>
            /\ Before(log[k].t, "df", k)
            /\ df[log[k].t] = "ok"

\* C6 amended: per target the steps are connect, nvidia-smi (sentinel on
\* failure), df -h (Failure and stop on failure), parse, Success; df -h is
\* never issued before the nvidia-smi step, and a df -h failure comes after
\* nvidia-smi was issued and before any parsing.
C6_OptionalBeforeMandatory ==
    /\ \A k \in 1..Len(log) :
          LET t == log[k].t
          IN  /\ log[k].ev = "nvidia" =>
                    (Before(t, "connect", k) /\ conn[t] = "ok")
              /\ log[k].ev = "df" =>
                    (Before(t, "nvidia", k) /\ nv[t] \in {"ok", "raise"})
              /\ log[k].ev = "parse" =>
                    (Before(t, "df", k) /\ df[t] = "ok")
    /\ \A t \in Targets :
          /\ (Done(t) /\ IsSuccess(results[t])) => Issued(t, "parse")
          /\ df[t] = "raise" => (Issued(t, "nvidia") /\ ~Issued(t, "parse"))

C6_Witness ==
    /\ pc = "done"
    /\ servers = 2
    /\ df[1] = "raise"
    /\ IsFailure(results[1])
    /\ nv[2] = "raise"
    /\ IsSuccess(results[2])

\* C7: with a non-empty target list, nothing that happens on a target makes
\* an exception escape and end the poll cycle early.
C7_NoPerTargetAbort == pc # "aborted"

\* C8 as stated: parse_gpu_info returns, without raising, one record per
\* line after the first two lines of the input that has at least 13 fields,
\* in order, from fields 1, 2, 8, 10 and 12.
C8_GpuRecordsOfInput ==
    p_pc = "gpu" =>
        /\ p_out.exc = "none"
        /\ p_out.val = GpuRecordsOf(p_text)

\* C8 amended: the same, the first two lines being those of the input once
\* its leading and trailing blank lines are removed.
C8_GpuRecordsOfTrimmed ==
    p_pc = "gpu" =>
        /\ p_out.exc = "none"
        /\ p_out.val = GpuRecordsOf(Trim(p_text))

C8_Witness ==
    /\ p_pc = "gpu"
    /\ Len(p_text) = 4
    /\ Len(p_text[3]) = 12
    /\ Len(p_text[4]) = 14
    /\ p_out.val = <<GpuRecord(p_text[4])>>
    /\ p_out.val[1].utilization = <<"e", "c">>

\* C9 as stated: parse_storage_info returns, without raising, one record per
\* line after the first line of the input that has at least 6 fields, in
\* order, from fields 0 to 5 unchanged.
C9_StorageRecordsOfInput ==
    p_pc = "storage" =>
        /\ p_out.exc = "none"
        /\ p_out.val = StorageRecordsOf(p_text)

\* C9 amended: the same, the first line being that of the input once its
\* leading and trailing blank lines are removed.
C9_StorageRecordsOfTrimmed ==
    p_pc = "storage" =>
        /\ p_out.exc = "none"
        /\ p_out.val = StorageRecordsOf(Trim(p_text))

C9_Witness ==
    /\ p_pc = "storage"
    /\ Len(p_text) = 4
    /\ Len(p_text[2]) = 5
    /\ Len(p_out.val) = 2
    /\ p_out.val[1].use_percent = <<"b", "4">>
    /\ p_out.val[2].mounted_on = <<"d", "5">>

\* C10: at most one session is open at any time, and when a connect step
\* begins every earlier target's session is no longer open.
C10_OneSessionAtATime ==
    /\ Cardinality({t \in Targets : session[t] = "open"}) <= 1
    /\ pc = "gs_connect" => \A t \in 1..(idx - 1) : session[t] # "open"

====
